---- MODULE Spec2Model ----
(***************************************************************************)
(* A model of the document pipeline of backend/app/services:               *)
(*   document_processor.py  DocumentProcessor (process_document,           *)
(*                          _clean_text, _chunk_text, _get_overlap_text,   *)
(*                          _split_large_paragraph)                        *)
(*   table_parser.py        TableParser (parse_tables, _classify_table,    *)
(*                          the three row extractors, the value parsers)   *)
(* Text is a sequence of one-character strings, so that len, strip, split  *)
(* and rfind are computed character by character as Python computes them.  *)
(***************************************************************************)
EXTENDS Integers, Sequences, FiniteSets, TLC

VARIABLES
    pc,            \* position of the running call
    settings,      \* [CHUNK_SIZE, CHUNK_OVERLAP] of app.core.config
    pdf,           \* the pages pdfplumber yields: [tables, text] each
    tables,        \* the tables handed to parse_tables
    text_content,  \* list of [page, text] handed to _chunk_text
    table_idx,     \* number of tables the loop of parse_tables has consumed
    stats,         \* the summary parse_tables builds
    db,            \* the persistence session: [state, pending, committed]
    log,           \* history: the calls made to the collaborators, in order
    page_pos,      \* number of pages the outer loop of _chunk_text has consumed
    chunks,        \* the list _chunk_text builds
    chunk_index,   \* the running index of _chunk_text
    chunk_pos,     \* number of chunks the storing loop has consumed
    in_flight,     \* the add_document call being awaited, as a set
    chunk_count,   \* chunk_count of process_document
    result,        \* what process_document returned or raised, as a set
    ret            \* the value returned by a function called on its own

inputVars == <<settings, pdf, tables, text_content>>
tableVars == <<table_idx, stats>>
chunkVars == <<page_pos, chunks, chunk_index>>
storeVars == <<chunk_pos, in_flight, chunk_count>>

vars == <<pc, settings, pdf, tables, text_content, table_idx, stats, db, log,
          page_pos, chunks, chunk_index, chunk_pos, in_flight, chunk_count,
          result, ret>>

----------------------------------------------------------------------------
(* Bounds of the model *)

MaxChunkSize == 3      \* the largest CHUNK_SIZE configured
MaxDocLen == 4         \* characters of text in a document given to _chunk_text
MaxPages == 2          \* pages of a document given to _chunk_text
MaxTables == 2         \* tables in a list given to parse_tables
MaxRows == 2           \* data rows of a table given to a row extractor
MaxClassifyRows == 4   \* rows of a table given to _classify_table
MaxPdfPages == 2       \* pages of a PDF given to process_document
MaxParagraphs == 2     \* paragraphs of a page built from whole paragraphs

----------------------------------------------------------------------------
(* Characters and the str methods the code uses *)

NL == "\n"
SP == " "
DOT == "."

Whitespace == {SP, NL, "\t"}
SentenceEnd == {".", "!", "?"}

IsSpace(c) == c \in Whitespace

Max2(a, b) == IF a >= b THEN a ELSE b

\* F(v) with v evaluated once: a local variable holding the value of v
Bind(v, F(_)) == CHOOSE y \in {F(x) : x \in {v}} : TRUE

RECURSIVE LStrip(_)
LStrip(s) == IF s # <<>> /\ IsSpace(Head(s)) THEN LStrip(Tail(s)) ELSE s

RECURSIVE RStrip(_)
RStrip(s) ==
    IF s # <<>> /\ IsSpace(s[Len(s)]) THEN RStrip(SubSeq(s, 1, Len(s) - 1)) ELSE s

\* str.strip()
Strip(s) == RStrip(LStrip(s))

\* text.split('\n\n'): cut at every non-overlapping "\n\n", left to right
RECURSIVE SplitParaFrom(_, _)
SplitParaFrom(s, cur) ==
    IF s = <<>> THEN <<cur>>
    ELSE IF Len(s) >= 2 /\ s[1] = NL /\ s[2] = NL
         THEN <<cur>> \o SplitParaFrom(SubSeq(s, 3, Len(s)), <<>>)
         ELSE SplitParaFrom(Tail(s), Append(cur, Head(s)))

SplitParagraphs(s) == SplitParaFrom(s, <<>>)

\* re.split(r'(?<=[.!?])\s+', paragraph): a maximal whitespace run that
\* starts right after '.', '!' or '?' is a separator
RECURSIVE SplitSentFrom(_, _, _)
SplitSentFrom(s, i, cur) ==
    IF i > Len(s) THEN <<cur>>
    ELSE IF IsSpace(s[i]) /\ i > 1 /\ s[i - 1] \in SentenceEnd
         THEN LET rest == LStrip(SubSeq(s, i, Len(s)))
              IN  <<cur>> \o SplitSentFrom(rest, 1, <<>>)
         ELSE SplitSentFrom(s, i + 1, Append(cur, s[i]))

SplitSentences(s) == SplitSentFrom(s, 1, <<>>)

\* str.split(): the maximal runs of non-whitespace characters
RECURSIVE SplitWordsFrom(_, _)
SplitWordsFrom(s, cur) ==
    IF s = <<>> THEN (IF cur = <<>> THEN <<>> ELSE <<cur>>)
    ELSE IF IsSpace(Head(s))
         THEN (IF cur = <<>> THEN <<>> ELSE <<cur>>) \o SplitWordsFrom(Tail(s), <<>>)
         ELSE SplitWordsFrom(Tail(s), Append(cur, Head(s)))

SplitWords(s) == SplitWordsFrom(s, <<>>)

\* str.rfind(sub) for a two-character sub: the highest 0-based index, or -1
RFind2(s, c1, c2) ==
    LET hits == {i \in 1..(Len(s) - 1) : s[i] = c1 /\ s[i + 1] = c2}
    IN  IF hits = {} THEN -1
        ELSE (CHOOSE i \in hits : \A j \in hits : j <= i) - 1

\* text[-n:]: the last n characters; text[-0:] is text[0:], the whole text
LastChars(s, n) ==
    IF n = 0 \/ n >= Len(s) THEN s ELSE SubSeq(s, Len(s) - n + 1, Len(s))

----------------------------------------------------------------------------
(* DocumentProcessor: the text chunker *)

Chunk(text, page, index) == [text |-> text, page |-> page, chunk_index |-> index]

\* chunks.append({"text": current_chunk.strip(), ...}); chunk_index += 1
Flush(st, page) ==
    [st EXCEPT !.chunks = Append(@, Chunk(Strip(st.current_chunk), page, st.chunk_index)),
               !.chunk_index = @ + 1]

\* _get_overlap_text
_get_overlap_text(text) ==
    IF Len(text) <= settings.CHUNK_OVERLAP THEN text
    ELSE LET overlap == LastChars(text, settings.CHUNK_OVERLAP)
             sentence_end == Max2(RFind2(overlap, ".", SP),
                                  Max2(RFind2(overlap, "!", SP), RFind2(overlap, "?", SP)))
         IN  IF sentence_end > 0
             THEN SubSeq(overlap, sentence_end + 3, Len(overlap))
             ELSE overlap

\* the word loop of _split_large_paragraph (lines 229-240)
RECURSIVE WordLoop(_, _, _)
WordLoop(words, st, page) ==
    IF words = <<>> THEN st
    ELSE LET word == Head(words)
         IN  IF Len(st.current_chunk) + Len(word) > settings.CHUNK_SIZE
             THEN LET st1 == IF st.current_chunk # <<>> THEN Flush(st, page) ELSE st
                  IN  WordLoop(Tail(words), [st1 EXCEPT !.current_chunk = word], page)
             ELSE WordLoop(Tail(words),
                           [st EXCEPT !.current_chunk =
                               @ \o (IF @ # <<>> THEN <<SP>> ELSE <<>>) \o word],
                           page)

\* the sentence loop of _split_large_paragraph (lines 214-244)
RECURSIVE SentenceLoop(_, _, _)
SentenceLoop(sentences, st, page) ==
    IF sentences = <<>> THEN st
    ELSE LET sentence == Head(sentences)
         IN  IF Len(st.current_chunk) + Len(sentence) > settings.CHUNK_SIZE
             THEN LET st1 == IF st.current_chunk # <<>> THEN Flush(st, page) ELSE st
                  IN  IF Len(sentence) > settings.CHUNK_SIZE
                      THEN SentenceLoop(Tail(sentences),
                                        WordLoop(SplitWords(sentence),
                                                 [st1 EXCEPT !.current_chunk = <<>>], page),
                                        page)
                      ELSE SentenceLoop(Tail(sentences),
                                        [st1 EXCEPT !.current_chunk = sentence], page)
             ELSE SentenceLoop(Tail(sentences),
                               [st EXCEPT !.current_chunk =
                                   @ \o (IF @ # <<>> THEN <<SP>> ELSE <<>>) \o sentence],
                               page)

\* _split_large_paragraph: the chunks of one paragraph, numbered from start_index
_split_large_paragraph(paragraph, page, start_index) ==
    LET st0 == [chunks |-> <<>>, current_chunk |-> <<>>, chunk_index |-> start_index]
        st1 == SentenceLoop(SplitSentences(paragraph), st0, page)
        st2 == IF Strip(st1.current_chunk) # <<>> THEN Flush(st1, page) ELSE st1
    IN  st2.chunks

\* a slip: the paragraph counted as one chunk however many it was split into
IndexAfterSplitByOne(index, para_chunks) == index + 1

\* chunk_index += len(para_chunks)
IndexAfterSplit(index, para_chunks) == index + Len(para_chunks)

\* the paragraph loop of _chunk_text (lines 145-172)
RECURSIVE ParagraphLoop(_, _, _)
ParagraphLoop(paragraphs, st, page) ==
    IF paragraphs = <<>> THEN st
    ELSE LET paragraph == Strip(Head(paragraphs))
             rest == Tail(paragraphs)
         IN  IF paragraph = <<>> THEN ParagraphLoop(rest, st, page)
             ELSE IF Len(st.current_chunk) + Len(paragraph) > settings.CHUNK_SIZE
             THEN IF st.current_chunk # <<>>
                  THEN LET overlap_text == _get_overlap_text(st.current_chunk)
                       IN  ParagraphLoop(rest,
                               [Flush(st, page) EXCEPT !.current_chunk =
                                   overlap_text \o <<SP>> \o paragraph],
                               page)
                  ELSE LET para_chunks ==
                               _split_large_paragraph(paragraph, page, st.chunk_index)
                       IN  ParagraphLoop(rest,
                               [chunks |-> st.chunks \o para_chunks,
                                current_chunk |-> <<>>,
                                chunk_index |-> IndexAfterSplit(st.chunk_index, para_chunks)],
                               page)
             ELSE ParagraphLoop(rest,
                      [st EXCEPT !.current_chunk =
                          @ \o (IF @ # <<>> THEN <<NL, NL>> ELSE <<>>) \o paragraph],
                      page)

\* one iteration of the page loop of _chunk_text (lines 136-181)
ChunkOnePage(page_content, chunks0, index0) ==
    LET st0 == [chunks |-> chunks0, current_chunk |-> <<>>, chunk_index |-> index0]
        st1 == ParagraphLoop(SplitParagraphs(page_content.text), st0, page_content.page)
    IN  IF Strip(st1.current_chunk) # <<>> THEN Flush(st1, page_content.page) ELSE st1

----------------------------------------------------------------------------
(* Strings of the table parser *)

\* a string as the sequence of its characters
RECURSIVE Chars(_)
Chars(str) == IF str = "" THEN <<>> ELSE <<Head(str)>> \o Chars(Tail(str))

\* a cell that pdfplumber left empty is Python's None, not a str
NoneCell == <<"None">>

UpperLetters == Chars("ABCDEFGHIJKLMNOPQRSTUVWXYZ")
LowerLetters == Chars("abcdefghijklmnopqrstuvwxyz")
DigitChars == Chars("0123456789")

IsDigit(c) == \E i \in 1..10 : DigitChars[i] = c
DigitVal(c) == (CHOOSE i \in 1..10 : DigitChars[i] = c) - 1

LowerChar(c) ==
    IF \E i \in 1..26 : UpperLetters[i] = c
    THEN LowerLetters[CHOOSE i \in 1..26 : UpperLetters[i] = c]
    ELSE c

\* str.lower()
Lower(s) == [i \in 1..Len(s) |-> LowerChar(s[i])]

\* sep.join(parts)
RECURSIVE Join(_, _)
Join(sep, parts) ==
    IF parts = <<>> THEN <<>>
    ELSE IF Len(parts) = 1 THEN parts[1]
    ELSE parts[1] \o sep \o Join(sep, Tail(parts))

\* sub in s
Contains(sub, s) ==
    \E i \in 0..(Len(s) - Len(sub)) : SubSeq(s, i + 1, i + Len(sub)) = sub

\* table[:n]
FirstRows(table, n) == SubSeq(table, 1, IF Len(table) < n THEN Len(table) ELSE n)

\* cell.lower() raises AttributeError on a None cell
HasNoneCell(row) == \E i \in 1..Len(row) : row[i] = NoneCell

\* " ".join(cell.lower() for cell in row)
RowText(row) == Join(<<SP>>, [i \in 1..Len(row) |-> Lower(row[i])])

----------------------------------------------------------------------------
(* TableParser: classification and column location *)

capital_call_keywords ==
    <<Chars("capital call"), Chars("capital contribution"), Chars("drawdown"),
      Chars("call date"), Chars("call number"), Chars("contribution date")>>

distribution_keywords ==
    <<Chars("distribution"), Chars("return of capital"), Chars("dividend"),
      Chars("distribution date"), Chars("payment"), Chars("return")>>

adjustment_keywords ==
    <<Chars("adjustment"), Chars("rebalance"), Chars("recall"), Chars("recallable"),
      Chars("correction"), Chars("amendment")>>

\* sum(1 for kw in keywords if kw in header_text)
Score(keywords, header_text) ==
    Cardinality({i \in 1..Len(keywords) : Contains(keywords[i], header_text)})

\* the rows _classify_table reads: table[:3]
ClassifyRows(table) == FirstRows(table, 3)

\* header_text of _classify_table
HeaderText(table) ==
    Join(<<SP>>, [i \in 1..Len(ClassifyRows(table)) |-> RowText(ClassifyRows(table)[i])])

\* a tie taken by the distribution branch first
PickTypeDistributionFirst(capital_score, distribution_score, adjustment_score) ==
    LET max_score == Max2(capital_score, Max2(distribution_score, adjustment_score))
    IN  IF max_score = 0 THEN "None"
        ELSE IF distribution_score = max_score THEN "distribution"
        ELSE IF capital_score = max_score THEN "capital_call"
        ELSE "adjustment"

\* lines 97-107: the category of three scores
PickType(capital_score, distribution_score, adjustment_score) ==
    LET max_score == Max2(capital_score, Max2(distribution_score, adjustment_score))
    IN  IF max_score = 0 THEN "None"
        ELSE IF capital_score = max_score THEN "capital_call"
        ELSE IF distribution_score = max_score THEN "distribution"
        ELSE "adjustment"

\* _classify_table: [raised, value]; value is "None" for no category
_classify_table(table) ==
    IF table = <<>> THEN [raised |-> FALSE, value |-> "None"]
    ELSE IF \E i \in 1..Len(ClassifyRows(table)) : HasNoneCell(ClassifyRows(table)[i])
    THEN [raised |-> TRUE, value |-> "AttributeError"]
    ELSE LET header_text == HeaderText(table)
         IN  [raised |-> FALSE,
              value |-> PickType(Score(capital_call_keywords, header_text),
                                 Score(distribution_keywords, header_text),
                                 Score(adjustment_keywords, header_text))]

header_keywords == <<Chars("date"), Chars("amount"), Chars("type"), Chars("description")>>

\* _find_header_row: the 0-based index of the first of table[:3] holding a
\* header keyword, 0 by default; -2 when a None cell raises before that
RECURSIVE FindHeaderFrom(_, _)
FindHeaderFrom(table, idx) ==
    IF idx >= Len(FirstRows(table, 3)) THEN 0
    ELSE IF HasNoneCell(table[idx + 1]) THEN -2
    ELSE IF \E k \in 1..Len(header_keywords) :
                Contains(header_keywords[k], RowText(table[idx + 1]))
    THEN idx
    ELSE FindHeaderFrom(table, idx + 1)

_find_header_row(table) == FindHeaderFrom(table, 0)

\* _find_column: the 0-based index of the first header holding one of the
\* names, -1 for None
_find_column(headers, possible_names) ==
    LET hits == {i \in 1..Len(headers) :
                    \E n \in 1..Len(possible_names) : Contains(possible_names[n], headers[i])}
    IN  IF hits = {} THEN -1
        ELSE (CHOOSE i \in hits : \A j \in hits : i <= j) - 1

----------------------------------------------------------------------------
(* TableParser: the value parsers *)

\* the None a parser returns
PyNone == [isNone |-> TRUE]

\* int(digits)
RECURSIVE Num(_)
Num(ds) == IF ds = <<>> THEN 0 ELSE 10 * Num(SubSeq(ds, 1, Len(ds) - 1)) + DigitVal(ds[Len(ds)])

AllDigits(t) == \A i \in 1..Len(t) : IsDigit(t[i])

\* a strptime format is a sequence of directives and literal characters; a
\* blank of the format stands for \s+
date_formats ==
    <<  <<"%Y", "-", "%m", "-", "%d">>,
        <<"%m", "/", "%d", "/", "%Y">>,
        <<"%d", "/", "%m", "/", "%Y">>,
        <<"%Y", "/", "%m", "/", "%d">>,
        <<"%m", "-", "%d", "-", "%Y">>,
        <<"%d", "-", "%m", "-", "%Y">>,
        <<"%b", SP, "%d", ",", SP, "%Y">>,
        <<"%B", SP, "%d", ",", SP, "%Y">>,
        <<"%d", SP, "%b", SP, "%Y">>,
        <<"%d", SP, "%B", SP, "%Y">>  >>

MonthNames ==
    <<Chars("january"), Chars("february"), Chars("march"), Chars("april"),
      Chars("may"), Chars("june"), Chars("july"), Chars("august"),
      Chars("september"), Chars("october"), Chars("november"), Chars("december")>>

MonthAbbrs == [i \in 1..12 |-> SubSeq(MonthNames[i], 1, 3)]

\* %m: 1[0-2]|0[1-9]|[1-9]
IsMonthText(t) ==
    \/ Len(t) = 2 /\ t[1] = "1" /\ t[2] \in {"0", "1", "2"}
    \/ Len(t) = 2 /\ t[1] = "0" /\ IsDigit(t[2]) /\ t[2] # "0"
    \/ Len(t) = 1 /\ IsDigit(t[1]) /\ t[1] # "0"

\* %d: 3[0-1]|[1-2]\d|0[1-9]|[1-9]| [1-9]
IsDayText(t) ==
    \/ Len(t) = 2 /\ t[1] = "3" /\ t[2] \in {"0", "1"}
    \/ Len(t) = 2 /\ t[1] \in {"1", "2"} /\ IsDigit(t[2])
    \/ Len(t) = 2 /\ t[1] \in {"0", SP} /\ IsDigit(t[2]) /\ t[2] # "0"
    \/ Len(t) = 1 /\ IsDigit(t[1]) /\ t[1] # "0"

DayVal(t) == IF t[1] = SP THEN DigitVal(t[2]) ELSE Num(t)

Prefix(s, n) == SubSeq(s, 1, n)
Drop(s, n) == SubSeq(s, n + 1, Len(s))

\* the ways the compiled format matches the whole of s: the fields of each
RECURSIVE StrpMatch(_, _, _)
StrpMatch(fmt, s, acc) ==
    IF fmt = <<>> THEN (IF s = <<>> THEN {acc} ELSE {})
    ELSE LET it == Head(fmt)
             rest == Tail(fmt)
             lens == 1..Len(s)
         IN  IF it = "%Y"
             THEN IF Len(s) >= 4 /\ AllDigits(Prefix(s, 4))
                  THEN StrpMatch(rest, Drop(s, 4), [acc EXCEPT !.Y = Num(Prefix(s, 4))])
                  ELSE {}
             ELSE IF it = "%m"
             THEN UNION {StrpMatch(rest, Drop(s, n), [acc EXCEPT !.m = Num(Prefix(s, n))]) :
                            n \in {n \in lens : IsMonthText(Prefix(s, n))}}
             ELSE IF it = "%d"
             THEN UNION {StrpMatch(rest, Drop(s, n), [acc EXCEPT !.d = DayVal(Prefix(s, n))]) :
                            n \in {n \in lens : IsDayText(Prefix(s, n))}}
             ELSE IF it = "%b"
             THEN UNION {StrpMatch(rest, Drop(s, 3), [acc EXCEPT !.m = k]) :
                            k \in {k \in 1..12 : Len(s) >= 3 /\ Lower(Prefix(s, 3)) = MonthAbbrs[k]}}
             ELSE IF it = "%B"
             THEN UNION {StrpMatch(rest, Drop(s, Len(MonthNames[k])), [acc EXCEPT !.m = k]) :
                            k \in {k \in 1..12 :
                                      /\ Len(s) >= Len(MonthNames[k])
                                      /\ Lower(Prefix(s, Len(MonthNames[k]))) = MonthNames[k]}}
             ELSE IF it = SP
             THEN UNION {StrpMatch(rest, Drop(s, n), acc) :
                            n \in {n \in lens : \A i \in 1..n : IsSpace(s[i])}}
             ELSE IF s # <<>> /\ Head(s) = it
                  THEN StrpMatch(rest, Tail(s), acc)
                  ELSE {}

IsLeap(Y) == Y % 4 = 0 /\ (Y % 100 # 0 \/ Y % 400 = 0)

DaysIn(Y, m) ==
    IF m = 2 THEN (IF IsLeap(Y) THEN 29 ELSE 28)
    ELSE IF m \in {4, 6, 9, 11} THEN 30 ELSE 31

\* datetime(Y, m, d) accepts the fields
ValidDate(f) == f.Y >= 1 /\ f.d <= DaysIn(f.Y, f.m)

\* datetime.strptime(s, fmt): the dates it can return, {} for ValueError
Strptime(s, fmt) == {f \in StrpMatch(fmt, s, [Y |-> 0, m |-> 0, d |-> 0]) : ValidDate(f)}

\* for fmt in date_formats: try strptime (lines 379-385)
RECURSIVE TryFormats(_, _)
TryFormats(s, k) ==
    IF k > Len(date_formats) THEN PyNone
    ELSE IF Strptime(s, date_formats[k]) # {}
         THEN CHOOSE f \in Strptime(s, date_formats[k]) : TRUE
         ELSE TryFormats(s, k + 1)

\* _parse_date
_parse_date(date_str) ==
    IF date_str = <<>> \/ Strip(date_str) = <<>> THEN PyNone
    ELSE TryFormats(Strip(date_str), 1)

\* re.sub(r'[^\d.\-\+]', '', s)
RECURSIVE KeepAmountChars(_)
KeepAmountChars(s) ==
    IF s = <<>> THEN <<>>
    ELSE IF IsDigit(Head(s)) \/ Head(s) \in {".", "-", "+"}
         THEN <<Head(s)>> \o KeepAmountChars(Tail(s))
         ELSE KeepAmountChars(Tail(s))

HasSign(t) == t # <<>> /\ Head(t) \in {"-", "+"}
Unsigned(t) == IF HasSign(t) THEN Tail(t) ELSE t
PointsOf(t) == {i \in 1..Len(t) : t[i] = "."}

\* Decimal(cleaned) accepts [sign] digits [. digits] with at least one digit
DecimalSyntax(t) ==
    LET u == Unsigned(t)
    IN  /\ \A i \in 1..Len(u) : IsDigit(u[i]) \/ u[i] = "."
        /\ Cardinality(PointsOf(u)) <= 1
        /\ \E i \in 1..Len(u) : IsDigit(u[i])

RECURSIVE OnlyDigits(_)
OnlyDigits(s) ==
    IF s = <<>> THEN <<>>
    ELSE IF IsDigit(Head(s)) THEN <<Head(s)>> \o OnlyDigits(Tail(s))
         ELSE OnlyDigits(Tail(s))

\* Decimal(cleaned): sign, coefficient and exponent
DecimalOf(t) ==
    LET u == Unsigned(t)
        pt == PointsOf(u)
    IN  [neg |-> HasSign(t) /\ Head(t) = "-",
         coef |-> Num(OnlyDigits(u)),
         exp |-> IF pt = {} THEN 0 ELSE 0 - (Len(u) - (CHOOSE i \in pt : TRUE))]

DecimalLtZero(x) == x.neg /\ x.coef > 0
DecimalLeZero(x) == x.neg \/ x.coef = 0
DecimalAbs(x) == [x EXCEPT !.neg = FALSE]

\* a negative amount refused instead of having its sign dropped
ParseAmountRejectNegative(amount_str, allow_negative) ==
    IF amount_str = <<>> \/ Strip(amount_str) = <<>> THEN PyNone
    ELSE LET cleaned == KeepAmountChars(Strip(amount_str))
         IN  IF cleaned = <<>> THEN PyNone
             ELSE IF ~DecimalSyntax(cleaned) THEN PyNone
             ELSE IF ~allow_negative /\ DecimalLtZero(DecimalOf(cleaned)) THEN PyNone
             ELSE DecimalOf(cleaned)

\* _parse_amount
_parse_amount(amount_str, allow_negative) ==
    IF amount_str = <<>> \/ Strip(amount_str) = <<>> THEN PyNone
    ELSE LET cleaned == KeepAmountChars(Strip(amount_str))
         IN  IF cleaned = <<>> THEN PyNone
             ELSE IF ~DecimalSyntax(cleaned) THEN PyNone
             ELSE IF ~allow_negative /\ DecimalLtZero(DecimalOf(cleaned))
                  THEN DecimalAbs(DecimalOf(cleaned))
                  ELSE DecimalOf(cleaned)

----------------------------------------------------------------------------
(* The persistence session (sqlalchemy.orm.Session) as the parser uses it *)

\* db.add(record): the record is pending until the next commit
DbAdd(session, rec) == [session EXCEPT !.pending = Append(@, rec)]

\* a commit that raises leaves its records pending, for the next commit
DbCommitKeepsPending(session, ok) ==
    IF ok THEN [session EXCEPT !.committed = @ \o session.pending, !.pending = <<>>]
    ELSE session

\* db.commit(): the pending records become durable; a commit that raises
\* rolls the transaction back, which expunges the pending records
DbCommit(session, ok) ==
    IF ok THEN [session EXCEPT !.committed = @ \o session.pending, !.pending = <<>>]
    ELSE [session EXCEPT !.pending = <<>>]

\* db.close()
DbClose(session) == [session EXCEPT !.state = "closed", !.pending = <<>>]

NewSession == [state |-> "open", pending |-> <<>>, committed |-> <<>>]
NoSession == [state |-> "none", pending |-> <<>>, committed |-> <<>>]

----------------------------------------------------------------------------
(* TableParser: the row extractors *)

\* what differs between the three extractors: the candidate header names of
\* each column, the default label, and the amount rule
CapitalCallRules ==
    [kind |-> "CapitalCall",
     date_names |-> <<Chars("date"), Chars("call date"), Chars("contribution date")>>,
     amount_names |-> <<Chars("amount"), Chars("call amount"), Chars("contribution")>>,
     type_names |-> <<Chars("type"), Chars("call type"), Chars("description")>>,
     recallable_names |-> <<>>,
     default_type |-> Chars("Capital Call"),
     allow_negative |-> FALSE]

DistributionRules ==
    [kind |-> "Distribution",
     date_names |-> <<Chars("date"), Chars("distribution date"), Chars("payment date")>>,
     amount_names |-> <<Chars("amount"), Chars("distribution"), Chars("payment")>>,
     type_names |-> <<Chars("type"), Chars("distribution type"), Chars("description")>>,
     recallable_names |-> <<Chars("recallable"), Chars("recall"), Chars("is recallable")>>,
     default_type |-> Chars("Distribution"),
     allow_negative |-> FALSE]

AdjustmentRules ==
    [kind |-> "Adjustment",
     date_names |-> <<Chars("date"), Chars("adjustment date")>>,
     amount_names |-> <<Chars("amount"), Chars("adjustment")>>,
     type_names |-> <<Chars("type"), Chars("adjustment type"), Chars("category")>>,
     recallable_names |-> <<>>,
     default_type |-> Chars("Adjustment"),
     allow_negative |-> TRUE]

\* headers = [cell.lower().strip() for cell in table[header_idx]]
HeadersOf(table, header_idx) ==
    [i \in 1..Len(table[header_idx + 1]) |-> Strip(Lower(table[header_idx + 1][i]))]

\* the column indices an extractor resolves, 0-based, -1 for None
ColumnsOf(rules, headers) ==
    [date_col |-> _find_column(headers, rules.date_names),
     amount_col |-> _find_column(headers, rules.amount_names),
     type_col |-> _find_column(headers, rules.type_names),
     recallable_col |-> IF rules.kind = "Distribution"
                        THEN _find_column(headers, rules.recallable_names)
                        ELSE -1]

\* row[col] of a 0-based column
CellAt(row, col) == row[col + 1]

\* the amount test of a row: 'if not amount or amount <= 0' for capital calls
\* and distributions, 'if amount is None' for adjustments
AmountRefused(rules, amount) ==
    IF amount = PyNone THEN TRUE
    ELSE IF rules.allow_negative THEN FALSE
    ELSE amount.coef = 0 \/ DecimalLeZero(amount)

recallable_tokens == {Chars("yes"), Chars("true"), Chars("y"), Chars("1")}

\* the record a valid row builds (lines 156-166, 228-245, 306-321)
RecordOf(rules, row, cols, date, amount) ==
    LET has_type == cols.type_col # -1 /\ Len(row) > cols.type_col
        has_recallable == cols.recallable_col # -1 /\ Len(row) > cols.recallable_col
        label == IF has_type THEN Strip(CellAt(row, cols.type_col)) ELSE rules.default_type
    IN  IF has_type /\ CellAt(row, cols.type_col) = NoneCell
        THEN [outcome |-> "raised"]
        ELSE IF has_recallable /\ CellAt(row, cols.recallable_col) = NoneCell
        THEN [outcome |-> "raised"]
        ELSE [outcome |-> "added",
              rec |-> [kind |-> rules.kind,
                       date |-> date,
                       type |-> label,
                       amount |-> amount,
                       is_recallable |->
                           /\ has_recallable
                           /\ Lower(Strip(CellAt(row, cols.recallable_col)))
                                  \in recallable_tokens,
                       is_contribution_adjustment |->
                           /\ rules.kind = "Adjustment"
                           /\ \/ Contains(Chars("capital"), Lower(label))
                              \/ Contains(Chars("contribution"), Lower(label))]]

\* the body of the row loop: what one data row does.  outcome is "short"
\* (the row is skipped before the try), "raised" (the try caught an
\* exception), "no_date", "no_amount" (continue), or "added" with the record
ProcessRow(rules, row, cols) ==
    IF Len(row) <= Max2(cols.date_col, cols.amount_col) THEN [outcome |-> "short"]
    ELSE IF CellAt(row, cols.date_col) = NoneCell THEN [outcome |-> "raised"]
    ELSE Bind(_parse_date(Strip(CellAt(row, cols.date_col))), LAMBDA date :
         IF date = PyNone THEN [outcome |-> "no_date"]
         ELSE IF CellAt(row, cols.amount_col) = NoneCell THEN [outcome |-> "raised"]
         ELSE Bind(_parse_amount(Strip(CellAt(row, cols.amount_col)), rules.allow_negative),
                   LAMBDA amount :
                       IF AmountRefused(rules, amount) THEN [outcome |-> "no_amount"]
                       ELSE RecordOf(rules, row, cols, date, amount)))

\* a row that raises ends the loop instead of being skipped
RowLoopStopsOnRaise(outcome) == outcome = "raised"

\* except Exception: print(...); continue -- no row outcome ends the loop
RowLoopStops(outcome) == FALSE

\* db.add(record); db.commit(); count += 1 -- a commit per row
AddRowAndCommit(acc, t_idx, row_idx, rec) ==
    [count |-> acc.count + 1,
     session |-> DbCommit(DbAdd(acc.session, rec), TRUE),
     log |-> acc.log \o <<[op |-> "add", table |-> t_idx, row |-> row_idx, rec |-> rec],
                          [op |-> "commit", table |-> t_idx, ok |-> TRUE]>>]

\* db.add(record); count += 1
AddRow(acc, t_idx, row_idx, rec) ==
    [count |-> acc.count + 1,
     session |-> DbAdd(acc.session, rec),
     log |-> Append(acc.log, [op |-> "add", table |-> t_idx, row |-> row_idx, rec |-> rec])]

\* for row_idx in range(header_idx + 1, len(table)): the count, the session
\* and the log after the rows from 0-based row_idx on; acc0 is [count, session, log]
RECURSIVE RowLoop(_, _, _, _, _, _)
RowLoop(rules, table, cols, row_idx, t_idx, acc0) ==
    IF row_idx >= Len(table) THEN acc0
    ELSE Bind(acc0, LAMBDA acc :
         Bind(ProcessRow(rules, table[row_idx + 1], cols), LAMBDA r :
              IF RowLoopStops(r.outcome) THEN acc
              ELSE IF r.outcome = "added"
              THEN RowLoop(rules, table, cols, row_idx + 1, t_idx,
                           AddRow(acc, t_idx, row_idx, r.rec))
              ELSE RowLoop(rules, table, cols, row_idx + 1, t_idx, acc)))

\* the rows and the commit of an extractor whose columns are resolved
ExtractRows(rules, table, cols, header_idx, session, log0, t_idx, commit_ok) ==
    Bind(RowLoop(rules, table, cols, header_idx + 1, t_idx,
                 [count |-> 0, session |-> session, log |-> log0]),
         LAMBDA acc :
             [raised |-> ~commit_ok,
              error |-> IF commit_ok THEN "" ELSE "CommitError",
              count |-> IF commit_ok THEN acc.count ELSE 0,
              session |-> DbCommit(acc.session, commit_ok),
              log |-> Append(acc.log, [op |-> "commit", table |-> t_idx, ok |-> commit_ok])])

\* the body shared by _parse_capital_calls, _parse_distributions and
\* _parse_adjustments: [raised, error, count, session, log].  commit_ok is
\* whether the commit of this call succeeds; t_idx only tags the log
Extractor(rules, table, session, log0, t_idx, commit_ok) ==
    Bind(_find_header_row(table), LAMBDA header_idx :
         IF header_idx = -2 \/ HasNoneCell(table[header_idx + 1])
         THEN [raised |-> TRUE, error |-> "AttributeError", count |-> 0,
               session |-> session, log |-> log0]
         ELSE Bind(ColumnsOf(rules, HeadersOf(table, header_idx)), LAMBDA cols :
                   IF cols.date_col = -1 \/ cols.amount_col = -1
                   THEN [raised |-> FALSE, error |-> "", count |-> 0,
                         session |-> session, log |-> log0]
                   ELSE ExtractRows(rules, table, cols, header_idx,
                                    session, log0, t_idx, commit_ok)))

_parse_capital_calls(table, session, log0, t_idx, commit_ok) ==
    Extractor(CapitalCallRules, table, session, log0, t_idx, commit_ok)

_parse_distributions(table, session, log0, t_idx, commit_ok) ==
    Extractor(DistributionRules, table, session, log0, t_idx, commit_ok)

_parse_adjustments(table, session, log0, t_idx, commit_ok) ==
    Extractor(AdjustmentRules, table, session, log0, t_idx, commit_ok)

----------------------------------------------------------------------------
(* TableParser.parse_tables *)

\* a table of fewer than two rows is skipped like an empty one only by luck
SkipTableEmptyOnly(table) == table = <<>>

\* if not table or len(table) < 2: continue
SkipTable(table) == table = <<>> \/ Len(table) < 2

\* f"Error parsing table {table_idx}: {str(e)}"
ErrorString(t_idx, e) == [table |-> t_idx, error |-> e]

\* the exception of one table ends the loop of parse_tables
TableErrorAborts == TRUE

\* except Exception as e: stats["errors"].append(...) -- the loop goes on
TableErrorPropagates == FALSE

\* the extractor a category is dispatched to
Dispatch(table_type, table, session, log0, t_idx, commit_ok) ==
    IF table_type = "capital_call"
    THEN _parse_capital_calls(table, session, log0, t_idx, commit_ok)
    ELSE IF table_type = "distribution"
    THEN _parse_distributions(table, session, log0, t_idx, commit_ok)
    ELSE _parse_adjustments(table, session, log0, t_idx, commit_ok)

StatsKey(table_type) ==
    IF table_type = "capital_call" THEN "capital_calls"
    ELSE IF table_type = "distribution" THEN "distributions"
    ELSE "adjustments"

\* the outcome of a dispatched table: the count added, or the error recorded
AfterDispatch(table_type, t_idx, st, r) ==
    IF r.raised
    THEN [stats |-> [st EXCEPT !.errors = Append(@, ErrorString(t_idx, r.error))],
          session |-> r.session, log |-> r.log, raised |-> TableErrorPropagates]
    ELSE [stats |-> [st EXCEPT ![StatsKey(table_type)] = @ + r.count],
          session |-> r.session, log |-> r.log, raised |-> FALSE]

\* one iteration of the loop of parse_tables (lines 56-77) on the table at
\* 0-based position t_idx: [stats, session, log, raised]
ParseOneTable(table, t_idx, st, session, log0, commit_ok) ==
    IF SkipTable(table)
    THEN [stats |-> st, session |-> session, log |-> log0, raised |-> FALSE]
    ELSE Bind(_classify_table(table), LAMBDA c :
         Bind(Append(log0, [op |-> "classify", table |-> t_idx,
                            type |-> IF c.raised THEN "raised" ELSE c.value]),
              LAMBDA log1 :
                  IF c.raised
                  THEN [stats |-> [st EXCEPT !.errors =
                                      Append(@, ErrorString(t_idx, c.value))],
                        session |-> session, log |-> log1,
                        raised |-> TableErrorPropagates]
                  ELSE IF c.value = "None"
                  THEN [stats |-> st, session |-> session, log |-> log1, raised |-> FALSE]
                  ELSE Bind(Dispatch(c.value, table, session, log1, t_idx, commit_ok),
                            LAMBDA r : AfterDispatch(c.value, t_idx, st, r))))

----------------------------------------------------------------------------
(* DocumentProcessor: extraction *)

\* extract_text() returned None
NoText == NoneCell

\* re.sub(r'\s+', ' ', text)
RECURSIVE CollapseSpace(_)
CollapseSpace(s) ==
    IF s = <<>> THEN <<>>
    ELSE IF IsSpace(Head(s)) THEN <<SP>> \o CollapseSpace(LStrip(s))
         ELSE <<Head(s)>> \o CollapseSpace(Tail(s))

\* the length of the whitespace run, and of the digit run, that starts s
RECURSIVE SpaceRun(_)
SpaceRun(s) == IF s # <<>> /\ IsSpace(Head(s)) THEN 1 + SpaceRun(Tail(s)) ELSE 0

RECURSIVE DigitRun(_)
DigitRun(s) == IF s # <<>> /\ IsDigit(Head(s)) THEN 1 + DigitRun(Tail(s)) ELSE 0

\* the length of the match of Page\s+\d+ (ignoring case) at the start of s, 0 for none
PageNumberMatch(s) ==
    IF Len(s) >= 4 /\ Lower(Prefix(s, 4)) = Chars("page")
    THEN LET ws == SpaceRun(Drop(s, 4))
             ds == DigitRun(Drop(s, 4 + ws))
         IN  IF ws > 0 /\ ds > 0 THEN 4 + ws + ds ELSE 0
    ELSE 0

\* re.sub(r'Page\s+\d+', '', text, flags=re.IGNORECASE)
RECURSIVE RemovePageNumbers(_)
RemovePageNumbers(s) ==
    IF s = <<>> THEN <<>>
    ELSE IF PageNumberMatch(s) > 0 THEN RemovePageNumbers(Drop(s, PageNumberMatch(s)))
         ELSE <<Head(s)>> \o RemovePageNumbers(Tail(s))

\* the length of the match of \n\s*\n at the start of s, 0 for none
BlankLinesMatch(s) ==
    IF s # <<>> /\ Head(s) = NL
    THEN LET run == SpaceRun(s)
             ends == {i \in 2..run : s[i] = NL}
         IN  IF ends = {} THEN 0 ELSE CHOOSE i \in ends : \A j \in ends : j <= i
    ELSE 0

\* re.sub(r'\n\s*\n', '\n\n', text)
RECURSIVE SquashBlankLines(_)
SquashBlankLines(s) ==
    IF s = <<>> THEN <<>>
    ELSE IF BlankLinesMatch(s) > 0
         THEN <<NL, NL>> \o SquashBlankLines(Drop(s, BlankLinesMatch(s)))
         ELSE <<Head(s)>> \o SquashBlankLines(Tail(s))

\* _clean_text
_clean_text(text) == Strip(SquashBlankLines(RemovePageNumbers(CollapseSpace(text))))

\* the tables _extract_pdf_content keeps: 'if table and len(table) > 1'
RECURSIVE KeptTables(_)
KeptTables(page_tables) ==
    IF page_tables = <<>> THEN <<>>
    ELSE (IF Len(Head(page_tables)) > 1 THEN <<Head(page_tables)>> ELSE <<>>)
             \o KeptTables(Tail(page_tables))

\* _extract_pdf_content over the pages from 0-based page_num on: [tables, text_content]
RECURSIVE ExtractFrom(_, _)
ExtractFrom(pages, page_num) ==
    IF page_num >= Len(pages) THEN [tables |-> <<>>, text_content |-> <<>>]
    ELSE LET page == pages[page_num + 1]
             rest == ExtractFrom(pages, page_num + 1)
             cleaned_text == IF page.text = NoText THEN <<>> ELSE _clean_text(page.text)
         IN  [tables |-> KeptTables(page.tables) \o rest.tables,
              text_content |->
                  (IF page.text # NoText /\ page.text # <<>> /\ Strip(cleaned_text) # <<>>
                   THEN <<[page |-> page_num + 1, text |-> cleaned_text]>>
                   ELSE <<>>) \o rest.text_content]

_extract_pdf_content(pages) == ExtractFrom(pages, 0)

----------------------------------------------------------------------------
(* The inputs of the chunker *)

TextChars == {"a", SP, NL, DOT}

TextsOfLen(n) == [1..n -> TextChars]

\* the configurations with CHUNK_OVERLAP < CHUNK_SIZE
Configs == {c \in [CHUNK_SIZE : 1..MaxChunkSize, CHUNK_OVERLAP : 0..MaxChunkSize] :
               c.CHUNK_OVERLAP < c.CHUNK_SIZE}

\* the one configuration of the runs that fix it
OneConfig == {c \in Configs : c.CHUNK_SIZE = MaxChunkSize /\ c.CHUNK_OVERLAP = MaxChunkSize - 1}

\* a text cut into k non-empty page texts at the increasing positions cuts
PagesOf(t, cuts) ==
    LET k == Len(cuts) + 1
        lo(i) == IF i = 1 THEN 1 ELSE cuts[i - 1] + 1
        hi(i) == IF i = k THEN Len(t) ELSE cuts[i]
    IN  [i \in 1..k |-> [page |-> i, text |-> SubSeq(t, lo(i), hi(i))]]

CutsOf(t, k) ==
    {c \in [1..(k - 1) -> 1..(Len(t) - 1)] : \A i \in 1..(k - 2) : c[i] < c[i + 1]}

DocsOf(t) == UNION {{PagesOf(t, c) : c \in CutsOf(t, k)} : k \in 1..MaxPages}

Docs == {<<>>} \cup UNION {UNION {DocsOf(t) : t \in TextsOfLen(n)} : n \in 1..MaxDocLen}

----------------------------------------------------------------------------
(* _chunk_text as a state machine over the pages of one document *)

EmptyStats == [capital_calls |-> 0, distributions |-> 0, adjustments |-> 0, errors |-> <<>>]

\* the variables a call on its own leaves at their initial values
IdleTables == tables = <<>> /\ table_idx = 0 /\ stats = EmptyStats
IdleSession == db = NoSession /\ log = <<>>
IdleChunker == text_content = <<>> /\ page_pos = 0 /\ chunks = <<>> /\ chunk_index = 0
IdleStore == chunk_pos = 0 /\ in_flight = {} /\ chunk_count = 0
IdleCall == pdf = <<>> /\ result = {} /\ ret = {}

InitChunk ==
    /\ pc = "chunking"
    /\ settings \in Configs
    /\ text_content \in Docs
    /\ page_pos = 0
    /\ chunks = <<>>
    /\ chunk_index = 0
    /\ IdleTables /\ IdleSession /\ IdleStore /\ IdleCall

\* for page_content in text_content: ... (one page)
ChunkPage ==
    /\ pc = "chunking"
    /\ page_pos < Len(text_content)
    /\ \E st \in {ChunkOnePage(text_content[page_pos + 1], chunks, chunk_index)} :
           /\ chunks' = st.chunks
           /\ chunk_index' = st.chunk_index
    /\ page_pos' = page_pos + 1
    /\ UNCHANGED <<pc, inputVars, tableVars, db, log, storeVars, result, ret>>

\* return chunks
ChunkReturn ==
    /\ pc = "chunking"
    /\ page_pos = Len(text_content)
    /\ pc' = "chunked"
    /\ UNCHANGED <<inputVars, tableVars, db, log, chunkVars, storeVars, result, ret>>

NextChunk == ChunkPage \/ ChunkReturn

SpecChunk == InitChunk /\ [][NextChunk]_vars

----------------------------------------------------------------------------
(* The inputs of the table parser *)

\* header rows
HdrDateAmount == <<Chars("Date"), Chars("Amount")>>
HdrDateAmountType == <<Chars("Date"), Chars("Amount"), Chars("Type")>>
HdrDateAmountRecallable == <<Chars("Date"), Chars("Amount"), Chars("Recallable")>>
HdrWhenAmount == <<Chars("When"), Chars("Amount")>>
HdrCall == <<Chars("Call Date"), Chars("Amount")>>
HdrDistribution == <<Chars("Payment Date"), Chars("Amount"), Chars("Recallable")>>
HdrAdjustment == <<Chars("Adjustment Date"), Chars("Amount")>>
HdrNone == <<Chars("Call Date"), NoneCell>>
HdrDrawdown == <<Chars("Drawdown"), Chars("x")>>
HdrTie == <<Chars("Call Date"), Chars("Amount"), Chars("Dividend")>>
TitleRow == <<Chars("Capital Calls")>>

\* data rows
GoodDate == Chars("2023-01-15")
RowGood == <<GoodDate, Chars("$1,000.50")>>
RowNegative == <<GoodDate, Chars("-50")>>
RowZero == <<Chars("01/16/2023"), Chars("0")>>
RowBadDate == <<Chars("bad"), Chars("7")>>
RowNoneAmount == <<GoodDate, NoneCell>>
RowRecallable == <<Chars("Jan 5, 2023"), Chars("(500)"), Chars("Yes")>>

\* the tables of the lists given to parse_tables
TableSet ==
    {   <<>>,
        <<HdrCall>>,
        <<HdrCall, RowGood>>,
        <<HdrCall, RowBadDate, RowNegative>>,
        <<HdrDistribution, RowRecallable, RowZero>>,
        <<HdrAdjustment, RowNegative, RowZero>>,
        <<HdrAdjustment, RowGood, RowNoneAmount>>,
        <<HdrDateAmount, RowGood>>,
        <<HdrNone, RowGood>>,
        <<HdrDrawdown, RowGood>>,
        <<HdrTie, RowGood>>   }

TableLists == UNION {[1..n -> TableSet] : n \in 0..MaxTables}

\* the cells of the data rows given to a row extractor on its own
DateCells == {GoodDate, Chars("bad"), NoneCell}
AmountCells == {Chars("$1,000.50"), Chars("-50"), Chars("0"), Chars("1.2.3"), NoneCell}
ThirdCells == {Chars("Capital Fee"), Chars("Yes"), NoneCell}

DataRows ==
    {<<GoodDate, a>> : a \in AmountCells}
        \cup {<<d, Chars("$1,000.50")>> : d \in DateCells \ {GoodDate}}
        \cup {<<GoodDate, Chars("7"), c>> : c \in ThirdCells}
        \cup {<<GoodDate>>}

HeaderParts ==
    {<<HdrDateAmountType>>, <<HdrDateAmountRecallable>>,
     <<TitleRow, HdrDateAmount>>, <<HdrWhenAmount>>}

RowTables ==
    {h \o body : h \in HeaderParts,
                 body \in UNION {[1..n -> DataRows] : n \in 1..MaxRows}}

\* the cells of the tables given to _classify_table on its own
ClassifyCells ==
    {Chars("Call Date"), Chars("Capital"), Chars("Call"), Chars("Distribution Date"),
     Chars("Dividend"), Chars("Recallable"), Chars("Adjustment"), Chars("Amount"),
     NoneCell}

ClassifyTables == UNION {[1..n -> {<<c>> : c \in ClassifyCells}] : n \in 1..MaxClassifyRows}

----------------------------------------------------------------------------
(* parse_tables as a state machine over the tables of one list *)

InitTables ==
    /\ pc = "parse_tables"
    /\ settings \in OneConfig
    /\ tables \in TableLists
    /\ table_idx = 0
    /\ stats = EmptyStats
    /\ db = NewSession
    /\ log = <<>>
    /\ IdleChunker /\ IdleStore /\ IdleCall

\* for table_idx, table in enumerate(tables): ... (one table)
ParseTable ==
    /\ pc = "parse_tables"
    /\ table_idx < Len(tables)
    /\ \E commit_ok \in BOOLEAN :
          \E r \in {ParseOneTable(tables[table_idx + 1], table_idx, stats, db, log, commit_ok)} :
              /\ stats' = r.stats
              /\ db' = r.session
              /\ log' = r.log
              /\ pc' = IF r.raised THEN "parse_raised" ELSE pc
    /\ table_idx' = table_idx + 1
    /\ UNCHANGED <<inputVars, chunkVars, storeVars, result, ret>>

\* return stats
ParseReturn ==
    /\ pc = "parse_tables"
    /\ table_idx = Len(tables)
    /\ pc' = "parsed"
    /\ UNCHANGED <<inputVars, tableVars, db, log, chunkVars, storeVars, result, ret>>

NextTables == ParseTable \/ ParseReturn

SpecTables == InitTables /\ [][NextTables]_vars

----------------------------------------------------------------------------
(* A row extractor called on one table *)

InitRows ==
    /\ pc = "extract_rows"
    /\ settings \in OneConfig
    /\ tables \in {<<t>> : t \in RowTables}
    /\ table_idx = 0
    /\ stats = EmptyStats
    /\ db = NewSession
    /\ log = <<>>
    /\ IdleChunker /\ IdleStore /\ IdleCall

\* the extractor returns or raises: ret holds [extractor, raised, count]
RowsDone(name, r) ==
    /\ ret' = {[extractor |-> name, raised |-> r.raised, count |-> r.count]}
    /\ db' = r.session
    /\ log' = r.log
    /\ pc' = "rows_done"
    /\ UNCHANGED <<inputVars, tableVars, chunkVars, storeVars, result>>

ParseCapitalCalls ==
    /\ pc = "extract_rows"
    /\ \E commit_ok \in BOOLEAN :
          \E r \in {_parse_capital_calls(tables[1], db, log, 0, commit_ok)} : RowsDone("CapitalCall", r)

ParseDistributions ==
    /\ pc = "extract_rows"
    /\ \E commit_ok \in BOOLEAN :
          \E r \in {_parse_distributions(tables[1], db, log, 0, commit_ok)} : RowsDone("Distribution", r)

ParseAdjustments ==
    /\ pc = "extract_rows"
    /\ \E commit_ok \in BOOLEAN :
          \E r \in {_parse_adjustments(tables[1], db, log, 0, commit_ok)} : RowsDone("Adjustment", r)

NextRows == ParseCapitalCalls \/ ParseDistributions \/ ParseAdjustments

SpecRows == InitRows /\ [][NextRows]_vars

----------------------------------------------------------------------------
(* _classify_table called on one table *)

InitClassify ==
    /\ pc = "classify"
    /\ settings \in OneConfig
    /\ tables \in {<<t>> : t \in ClassifyTables}
    /\ table_idx = 0
    /\ stats = EmptyStats
    /\ IdleSession /\ IdleChunker /\ IdleStore /\ IdleCall

Classify ==
    /\ pc = "classify"
    /\ ret' = {_classify_table(tables[1])}
    /\ pc' = "classified"
    /\ UNCHANGED <<inputVars, tableVars, db, log, chunkVars, storeVars, result>>

NextClassify == Classify

SpecClassify == InitClassify /\ [][NextClassify]_vars

----------------------------------------------------------------------------
(* process_document as a state machine *)

\* the pages pdfplumber yields: the tables and the text of each
PdfPages ==
    {   [tables |-> << <<HdrCall>>, <<HdrCall, RowBadDate, RowNegative>> >>,
         text |-> Chars("Page 1 a. a")],
        [tables |-> << <<HdrNone, RowGood>>, <<HdrAdjustment, RowNegative, RowZero>> >>,
         text |-> Chars("aaaa  bb")],
        [tables |-> << <<HdrDateAmount, RowGood>> >>, text |-> Chars("aaaa  bb")],
        [tables |-> <<>>, text |-> NoText],
        [tables |-> <<>>, text |-> <<SP, NL, SP>>]   }

PdfDocs == UNION {[1..n -> PdfPages] : n \in 0..MaxPdfPages}

Init ==
    /\ pc = "start"
    /\ settings \in OneConfig
    /\ pdf \in PdfDocs
    /\ db = NoSession
    /\ log = <<>>
    /\ result = {}
    /\ ret = {}
    /\ IdleTables /\ IdleChunker /\ IdleStore

\* the except handler returns without the finally clause running
AfterExceptNoFinally == "done"

\* try: ... except Exception: return {...} finally: db.close() -- the next
\* position after the except handler has built its result
AfterExcept == "finally"

\* chunk_count += 1 whatever add_document did
CountAfterSubmitAlways(count, ok) == count + 1

\* chunk_count += 1 is skipped when add_document raised (lines 49-61)
CountAfterSubmit(count, ok) == IF ok THEN count + 1 ELSE count

\* db = SessionLocal()
OpenSession ==
    /\ pc = "start"
    /\ db' = NewSession
    /\ log' = Append(log, [op |-> "open"])
    /\ pc' = "extract"
    /\ UNCHANGED <<inputVars, tableVars, chunkVars, storeVars, result, ret>>

\* SessionLocal() raises: the call is outside the try, the caller gets the exception
OpenSessionRaises ==
    /\ pc = "start"
    /\ result' = {[status |-> "raised", error |-> "SessionLocal"]}
    /\ pc' = "done"
    /\ UNCHANGED <<inputVars, tableVars, db, log, chunkVars, storeVars, ret>>

\* tables, text_content = self._extract_pdf_content(file_path)
ExtractContent ==
    /\ pc = "extract"
    /\ \E e \in {_extract_pdf_content(pdf)} :
          /\ tables' = e.tables
          /\ text_content' = e.text_content
    /\ pc' = "parse_tables"
    /\ UNCHANGED <<settings, pdf, tableVars, db, log, chunkVars, storeVars, result, ret>>

\* an exception escapes the step in progress (pdfplumber, parse_tables or
\* _chunk_text): except Exception builds the failed result
StepRaises ==
    /\ pc \in {"extract", "parse_tables", "chunking"}
    /\ result' = {[status |-> "failed", error |-> pc]}
    /\ pc' = AfterExcept
    /\ UNCHANGED <<inputVars, tableVars, db, log, chunkVars, storeVars, ret>>

\* chunks = self._chunk_text(text_content)
CallChunkText ==
    /\ pc = "parsed"
    /\ pc' = "chunking"
    /\ UNCHANGED <<inputVars, tableVars, db, log, chunkVars, storeVars, result, ret>>

\* await self.vector_store.add_document(...): the call starts
SubmitChunk ==
    /\ pc = "chunked"
    /\ in_flight = {}
    /\ chunk_pos < Len(chunks)
    /\ in_flight' = {chunks[chunk_pos + 1]}
    /\ log' = Append(log, [op |-> "add_document", content |-> chunks[chunk_pos + 1].text,
                           page |-> chunks[chunk_pos + 1].page,
                           chunk_index |-> chunks[chunk_pos + 1].chunk_index])
    /\ UNCHANGED <<pc, inputVars, tableVars, db, chunkVars, chunk_pos, chunk_count,
                   result, ret>>

\* the awaited call completes, or raises into 'except Exception: print'
SubmitDone ==
    /\ pc = "chunked"
    /\ in_flight # {}
    /\ \E ok \in BOOLEAN :
          /\ chunk_count' = CountAfterSubmit(chunk_count, ok)
          /\ log' = Append(log, [op |-> "add_document_done", ok |-> ok])
    /\ in_flight' = {}
    /\ chunk_pos' = chunk_pos + 1
    /\ UNCHANGED <<pc, inputVars, tableVars, db, chunkVars, result, ret>>

\* the coroutine is cancelled while it awaits add_document: CancelledError is no
\* Exception, neither handler catches it, the finally clause runs
SubmitCancelled ==
    /\ pc = "chunked"
    /\ in_flight # {}
    /\ in_flight' = {}
    /\ result' = {[status |-> "raised", error |-> "CancelledError"]}
    /\ pc' = "finally"
    /\ UNCHANGED <<inputVars, tableVars, db, log, chunkVars, chunk_pos, chunk_count, ret>>

\* return {"status": "completed", "statistics": {...}}
ReturnCompleted ==
    /\ pc = "chunked"
    /\ in_flight = {}
    /\ chunk_pos = Len(chunks)
    /\ result' = {[status |-> "completed",
                   statistics |-> [pages_processed |-> Len(text_content),
                                   tables_found |-> Len(tables),
                                   capital_calls |-> stats.capital_calls,
                                   distributions |-> stats.distributions,
                                   adjustments |-> stats.adjustments,
                                   text_chunks |-> chunk_count,
                                   errors |-> stats.errors]]}
    /\ pc' = "finally"
    /\ UNCHANGED <<inputVars, tableVars, db, log, chunkVars, storeVars, ret>>

\* finally: db.close()
CloseSession ==
    /\ pc = "finally"
    /\ db' = DbClose(db)
    /\ log' = Append(log, [op |-> "close"])
    /\ pc' = "done"
    /\ UNCHANGED <<inputVars, tableVars, chunkVars, storeVars, result, ret>>

\* db.close() raises: the exception replaces the result being returned, and
\* the session is left closed or as it was
CloseSessionRaises ==
    /\ pc = "finally"
    /\ db' \in {db, DbClose(db)}
    /\ log' = Append(log, [op |-> "close"])
    /\ result' = {[status |-> "raised", error |-> "close"]}
    /\ pc' = "done"
    /\ UNCHANGED <<inputVars, tableVars, chunkVars, storeVars, ret>>

Next ==
    \/ OpenSession
    \/ OpenSessionRaises
    \/ ExtractContent
    \/ StepRaises
    \/ ParseTable
    \/ ParseReturn
    \/ CallChunkText
    \/ ChunkPage
    \/ ChunkReturn
    \/ SubmitChunk
    \/ SubmitDone
    \/ SubmitCancelled
    \/ ReturnCompleted
    \/ CloseSession
    \/ CloseSessionRaises

Spec == Init /\ [][Next]_vars

----------------------------------------------------------------------------
(* Claims about the chunker, checked under SpecChunk *)

SeqToSet(q) == {q[i] : i \in 1..Len(q)}

\* the sentences of a chunk text, paragraph by paragraph
SentencesOf(text) ==
    UNION {SeqToSet(SplitSentences(Strip(p))) : p \in SeqToSet(SplitParagraphs(text))}

\* the chunk holds a word or sentence that is itself longer than CHUNK_SIZE
HoldsOversizedUnit(text) ==
    \E u \in SentencesOf(text) \cup SeqToSet(SplitWords(text)) :
        Len(u) > settings.CHUNK_SIZE

\* C1: every chunk built by _chunk_text has a text of at most CHUNK_SIZE
\* characters, unless it comes from a single word or sentence that is itself
\* longer than CHUNK_SIZE.
C1_ChunkSizeBound ==
    \A i \in 1..Len(chunks) :
        \/ Len(chunks[i].text) <= settings.CHUNK_SIZE
        \/ HoldsOversizedUnit(chunks[i].text)

\* C2: the chunk_index values of the list are exactly 0, 1, ..., n-1 in list
\* order, across pages and across the calls of _split_large_paragraph, and
\* the running index is the number of chunks built so far.
C2_ContiguousIndices ==
    /\ \A i \in 1..Len(chunks) : chunks[i].chunk_index = i - 1
    /\ chunk_index = Len(chunks)

\* a returned list of at least three chunks from two pages: a paragraph that
\* _split_large_paragraph cut into several chunks, and chunks of a later page
\* after them
C2_Witness ==
    /\ pc = "chunked"
    /\ Len(chunks) >= 3
    /\ \E n \in 1..Len(text_content) :
          LET first == Strip(SplitParagraphs(text_content[n].text)[1])
          IN  /\ Len(first) > settings.CHUNK_SIZE
              /\ Len(_split_large_paragraph(first, text_content[n].page, 0)) >= 2
              /\ \E j \in 1..Len(chunks) : chunks[j].page > text_content[n].page

----------------------------------------------------------------------------
(* Claims about process_document, checked under Spec *)

\* the events of the log whose operation is one of ops, in order
RECURSIVE EventsOf(_, _)
EventsOf(events, ops) ==
    IF events = <<>> THEN <<>>
    ELSE IF Head(events).op \in ops
         THEN <<Head(events)>> \o EventsOf(Tail(events), ops)
         ELSE EventsOf(Tail(events), ops)

CountOf(events, ops) == Len(EventsOf(events, ops))

\* C3 as stated: process_document never raises to its caller, every failure
\* of a step becomes a result whose status is "failed".
C3_NeverRaises ==
    \A r \in result : r.status \in {"completed", "failed"}

\* C4: a session opened by process_document has db.close() called on it
\* exactly once before process_document exits, on every exit path, and no
\* add, commit or index submission follows the close.
C4_ClosedOnceAndLast ==
    /\ CountOf(log, {"open"}) <= 1
    /\ CountOf(log, {"close"}) <= CountOf(log, {"open"})
    /\ \A i \in 1..Len(log) : log[i].op = "close" => i = Len(log)
    /\ \A i \in 1..Len(log) : log[i].op = "open" => i = 1
    /\ pc = "done" /\ CountOf(log, {"open"}) = 1 => CountOf(log, {"close"}) = 1
    /\ pc = "done" /\ (\A r \in result : r.status # "raised") /\ db # NoSession
          => db.state = "closed"

\* an exit through the except handler after records were added and committed:
\* the session is closed once, after them
C4_Witness ==
    /\ pc = "done"
    /\ \E r \in result : r.status = "failed" /\ r.error = "chunking"
    /\ CountOf(log, {"add"}) >= 1
    /\ CountOf(log, {"commit"}) >= 1
    /\ CountOf(log, {"close"}) = 1
    /\ db.state = "closed"

\* the calls of add_document and their completions, in order
IndexEvents == EventsOf(log, {"add_document", "add_document_done"})
IndexCalls == EventsOf(log, {"add_document"})
IndexDones == EventsOf(log, {"add_document_done"})
Succeeded == {k \in 1..Len(IndexDones) : IndexDones[k].ok}

\* C5: add_document is called once per chunk in chunk-index order, each call
\* completes before the next starts and before the result is assembled, a
\* failed call stops no later call, and text_chunks is the number of calls
\* that succeeded.
C5_OneSubmissionPerChunk ==
    /\ \A k \in 1..Len(IndexCalls) :
          /\ k <= Len(chunks)
          /\ IndexCalls[k].chunk_index = k - 1
          /\ IndexCalls[k].content = chunks[k].text
          /\ IndexCalls[k].page = chunks[k].page
    /\ \A k \in 1..Len(IndexEvents) :
          IndexEvents[k].op = IF k % 2 = 1 THEN "add_document" ELSE "add_document_done"
    /\ chunk_count = Cardinality(Succeeded)
    /\ \A r \in result :
          r.status = "completed" =>
              /\ Len(IndexCalls) = Len(chunks)
              /\ Len(IndexDones) = Len(chunks)
              /\ r.statistics.text_chunks = Cardinality(Succeeded)

\* a completed result after a failed submission followed by a successful one
C5_Witness ==
    /\ pc = "done"
    /\ \E r \in result :
          /\ r.status = "completed"
          /\ r.statistics.text_chunks >= 1
          /\ r.statistics.text_chunks < Len(chunks)
    /\ Len(IndexDones) >= 2
    /\ ~IndexDones[1].ok
    /\ IndexDones[Len(IndexDones)].ok

----------------------------------------------------------------------------
(* Claims about parse_tables, checked under SpecTables *)

\* the 0-based positions of the tables whose classification or commit raised
FailedTables ==
    {log[k].table : k \in {j \in 1..Len(log) :
        \/ log[j].op = "classify" /\ log[j].type = "raised"
        \/ log[j].op = "commit" /\ ~log[j].ok}}

\* a table the loop does not skip and whose first three rows hold a None cell
RaisesInClassification(table) ==
    /\ Len(table) >= 2
    /\ \E i \in 1..Len(FirstRows(table, 3)) : HasNoneCell(table[i])

\* C6: parse_tables never raises; its error list holds exactly one string per
\* table whose classification, extraction or commit raised, in table order
\* and tagged with the position of the table, and the tables after a failing
\* one are still classified and dispatched.
C6_OneErrorPerFailingTable ==
    /\ pc # "parse_raised"
    /\ {stats.errors[k].table : k \in 1..Len(stats.errors)} = FailedTables
    /\ \A j, k \in 1..Len(stats.errors) :
          j < k => stats.errors[j].table < stats.errors[k].table
    /\ \A i \in 0..(table_idx - 1) :
          /\ RaisesInClassification(tables[i + 1]) => i \in FailedTables
          /\ Len(tables[i + 1]) >= 2 =>
                Cardinality({k \in 1..Len(log) :
                                log[k].op = "classify" /\ log[k].table = i}) = 1
    /\ pc = "parsed" => table_idx = Len(tables)

\* a returned summary with the error of the first table and the records of
\* the table after it
C6_Witness ==
    /\ pc = "parsed"
    /\ Len(tables) = 2
    /\ Len(stats.errors) = 1
    /\ stats.errors[1].table = 0
    /\ stats.capital_calls + stats.distributions + stats.adjustments >= 1
    /\ \E k \in 1..Len(log) : log[k].op = "add" /\ log[k].table = 1

\* the table is not dispatched: fewer than 2 rows, or no keyword of any of
\* the three vocabularies in its first three rows
Undispatched(table) ==
    \/ Len(table) < 2
    \/ /\ \A i \in 1..Len(FirstRows(table, 3)) : ~HasNoneCell(table[i])
       /\ Score(capital_call_keywords, HeaderText(table)) = 0
       /\ Score(distribution_keywords, HeaderText(table)) = 0
       /\ Score(adjustment_keywords, HeaderText(table)) = 0

\* one iteration of the loop on a table that is not dispatched changes
\* neither the summary nor the session, and adds no add or commit to the log
C7_Step ==
    (pc = "parse_tables" /\ table_idx < Len(tables) /\ table_idx' = table_idx + 1
        /\ Undispatched(tables[table_idx + 1]))
    => /\ stats' = stats
       /\ db' = db
       /\ Len(log') >= Len(log)
       /\ SubSeq(log', 1, Len(log)) = log
       /\ \A k \in (Len(log) + 1)..Len(log') : log'[k].op \notin {"add", "commit"}

\* C7: a table with fewer than 2 rows, or whose three keyword scores are all
\* zero, leaves the summary and the store unchanged: no count, no error
\* string, no add and no commit.
C7_UndispatchedTableIsFrame == [][C7_Step]_vars

\* a one-row table holding a keyword and an unclassified table of two rows
\* have both been through the loop, and nothing was counted, recorded or stored
C7_Witness ==
    /\ pc = "parsed"
    /\ Len(tables) = 2
    /\ Len(tables[1]) = 1
    /\ Score(capital_call_keywords, HeaderText(tables[1])) >= 1
    /\ Len(tables[2]) = 2
    /\ Undispatched(tables[2])
    /\ stats = EmptyStats
    /\ db = NewSession

----------------------------------------------------------------------------
(* Claims about _classify_table, checked under SpecClassify *)

\* the number of keywords of a vocabulary found in the lower-cased text of
\* the rows, each keyword counted once
KeywordsFound(keywords, rows) ==
    LET text == Join(<<SP>>, [i \in 1..Len(rows) |->
                                Join(<<SP>>, [j \in 1..Len(rows[i]) |-> Lower(rows[i][j])])])
    IN  Cardinality({kw \in SeqToSet(keywords) : Contains(kw, text)})

\* the first category, in the order CapitalCall, Distribution, Adjustment,
\* whose score is the maximum; Unclassified when the three scores are 0
CategoryByRule(c, d, a) ==
    IF c = 0 /\ d = 0 /\ a = 0 THEN "None"
    ELSE IF c >= d /\ c >= a THEN "capital_call"
    ELSE IF d >= a THEN "distribution"
    ELSE "adjustment"

\* C8: the result of _classify_table is fixed by the first 3 rows of the
\* table: Unclassified iff the three scores are 0, else the first category
\* in the order CapitalCall, Distribution, Adjustment whose score is the
\* maximum, so a tie of CapitalCall and Distribution gives CapitalCall.
C8_ClassifyByFirstThreeRows ==
    pc = "classified" =>
        \A r \in ret :
            LET rows == FirstRows(tables[1], 3)
                c == KeywordsFound(capital_call_keywords, rows)
                d == KeywordsFound(distribution_keywords, rows)
                a == KeywordsFound(adjustment_keywords, rows)
            IN  /\ r = _classify_table(rows)
                /\ (\A i \in 1..Len(rows) : ~HasNoneCell(rows[i]))
                      => /\ ~r.raised
                         /\ r.value = CategoryByRule(c, d, a)
                         /\ (r.value = "None" <=> (c = 0 /\ d = 0 /\ a = 0))
                         /\ (c = d /\ c >= 1 /\ c >= a => r.value = "capital_call")

\* a table of four rows whose capital-call and distribution scores tie for
\* the maximum in the first three, with an adjustment keyword in the fourth
C8_Witness ==
    /\ pc = "classified"
    /\ Len(tables[1]) = 4
    /\ KeywordsFound(capital_call_keywords, FirstRows(tables[1], 3)) = 1
    /\ KeywordsFound(distribution_keywords, FirstRows(tables[1], 3)) = 1
    /\ KeywordsFound(adjustment_keywords, FirstRows(tables[1], 3)) = 0
    /\ KeywordsFound(adjustment_keywords, tables[1]) >= 1
    /\ ret = {[raised |-> FALSE, value |-> "capital_call"]}

----------------------------------------------------------------------------
(* Claims about the row extractors, checked under SpecRows *)

RulesOf(name) ==
    IF name = "CapitalCall" THEN CapitalCallRules
    ELSE IF name = "Distribution" THEN DistributionRules
    ELSE AdjustmentRules

\* the header row and the columns the extractor works with
HeaderIdxOf(table) == _find_header_row(table)
ColsOf(name, table) == ColumnsOf(RulesOf(name), HeadersOf(table, HeaderIdxOf(table)))
Resolved(cols) == cols.date_col # -1 /\ cols.amount_col # -1

\* the 0-based indices of the rows after the header row
DataRowsOf(table) == (HeaderIdxOf(table) + 1)..(Len(table) - 1)

\* the row holds a date cell and an amount cell, and its date parses
DatedRow(cols, row) ==
    /\ Len(row) > cols.date_col
    /\ Len(row) > cols.amount_col
    /\ row[cols.date_col + 1] # NoneCell
    /\ _parse_date(Strip(row[cols.date_col + 1])) # PyNone
    /\ row[cols.amount_col + 1] # NoneCell

\* no cell the record is built from is None
LabelsPresent(cols, row) ==
    /\ cols.type_col # -1 /\ Len(row) > cols.type_col
        => row[cols.type_col + 1] # NoneCell
    /\ cols.recallable_col # -1 /\ Len(row) > cols.recallable_col
        => row[cols.recallable_col + 1] # NoneCell

\* the text of the amount cell, and the number it writes when it writes one
AmountText(cols, row) == KeepAmountChars(Strip(row[cols.amount_col + 1]))
WritesNumber(cols, row) ==
    AmountText(cols, row) # <<>> /\ DecimalSyntax(AmountText(cols, row))
NumberOf(cols, row) == DecimalOf(AmountText(cols, row))

\* the row is valid for the extractor: long enough, date and amount parse,
\* the amount is not zero for capital calls and distributions, nothing raises
ValidRow(name, cols, row) ==
    /\ DatedRow(cols, row)
    /\ LabelsPresent(cols, row)
    /\ WritesNumber(cols, row)
    /\ name # "Adjustment" => NumberOf(cols, row).coef # 0

\* the 0-based indices of the valid rows after the header row
ValidRows(name, table) ==
    Bind(ColsOf(name, table), LAMBDA cols :
         IF Resolved(cols)
         THEN {i \in DataRowsOf(table) : ValidRow(name, cols, table[i + 1])}
         ELSE {})

AddEvents == EventsOf(log, {"add"})

\* C9: a row that is too short, whose date or amount does not parse or is
\* missing, or whose processing raises, gives no record and does not stop
\* the loop: the records added are those of the valid rows after the header
\* row, in row order, and the count returned is their number.
C9_CountIsValidRows ==
    pc = "rows_done" =>
        \A r \in ret : \A valid \in {ValidRows(r.extractor, tables[1])} :
            /\ {AddEvents[k].row : k \in 1..Len(AddEvents)} = valid
            /\ Len(AddEvents) = Cardinality(valid)
            /\ \A j, k \in 1..Len(AddEvents) :
                  j < k => AddEvents[j].row < AddEvents[k].row
            /\ ~r.raised => r.count = Cardinality(valid)

\* a table whose first data row raises (its amount cell is None) and whose
\* second data row is valid: one record, count 1
C9_Witness ==
    /\ pc = "rows_done"
    /\ \E r \in ret :
          /\ ~r.raised
          /\ r.count = 1
          /\ LET h == HeaderIdxOf(tables[1])
                 cols == ColsOf(r.extractor, tables[1])
             IN  /\ Resolved(cols)
                 /\ Len(tables[1]) = h + 3
                 /\ Len(tables[1][h + 2]) > cols.amount_col
                 /\ tables[1][h + 2][cols.amount_col + 1] = NoneCell
                 /\ ValidRow(r.extractor, cols, tables[1][h + 3])
    /\ Len(AddEvents) = 1

\* the amount of the record a row gives, by the stated rule: for an
\* adjustment the number as written; for a capital call or a distribution
\* its absolute value, and no record when it is 0; no record when the text
\* writes no number.  The set holds the amount, or nothing
AmountByRule(name, cols, row) ==
    IF ~WritesNumber(cols, row) THEN {}
    ELSE IF name = "Adjustment" THEN {NumberOf(cols, row)}
    ELSE IF NumberOf(cols, row).coef = 0 THEN {}
    ELSE {[NumberOf(cols, row) EXCEPT !.neg = FALSE]}

\* C10: every CapitalCall and Distribution record handed to the session has
\* an amount > 0: a negative amount text such as "-50" is kept with its
\* absolute value, a row whose amount is 0 or does not parse is skipped;
\* Adjustment records keep the parsed sign, negative and zero included.
C10_AmountSign ==
    /\ \A k \in 1..Len(AddEvents) :
          AddEvents[k].rec.kind \in {"CapitalCall", "Distribution"}
              => ~AddEvents[k].rec.amount.neg /\ AddEvents[k].rec.amount.coef > 0
    /\ pc = "rows_done" =>
          \A r \in ret : \A cols \in {ColsOf(r.extractor, tables[1])} :
              Resolved(cols) =>
                  \A i \in DataRowsOf(tables[1]) :
                      DatedRow(cols, tables[1][i + 1]) /\ LabelsPresent(cols, tables[1][i + 1])
                          => {AddEvents[k].rec.amount :
                                 k \in {j \in 1..Len(AddEvents) : AddEvents[j].row = i}}
                                = AmountByRule(r.extractor, cols, tables[1][i + 1])

\* a capital-call table with a "-50" row and a "0" row: one record, amount 50
C10_Witness ==
    /\ pc = "rows_done"
    /\ \E r \in ret : r.extractor = "CapitalCall" /\ r.count = 1
    /\ \E i, j \in DataRowsOf(tables[1]) :
          /\ Len(tables[1][i + 1]) >= 2 /\ tables[1][i + 1][2] = Chars("-50")
          /\ Len(tables[1][j + 1]) >= 2 /\ tables[1][j + 1][2] = Chars("0")
    /\ Len(AddEvents) = 1
    /\ AddEvents[1].rec.amount = [neg |-> FALSE, coef |-> 50, exp |-> 0]

----------------------------------------------------------------------------
(* _chunk_text on one page built from whole paragraphs *)

\* the paragraphs a page is built from: words of one and two letters, a
\* sentence, and a word longer than any CHUNK_SIZE configured
ParagraphTexts ==
    {Chars("aa"), Chars("a."), Chars("."), Chars("a aa"),
     [i \in 1..(MaxChunkSize + 2) |-> "a"]}

\* the page texts of 1..MaxParagraphs paragraphs separated by a blank line
PageTexts ==
    {Join(<<NL, NL>>, ps) : ps \in UNION {[1..n -> ParagraphTexts] : n \in 1..MaxParagraphs}}

InitParagraphs ==
    /\ pc = "chunking"
    /\ settings \in Configs
    /\ text_content \in {<<[page |-> 1, text |-> t]>> : t \in PageTexts}
    /\ page_pos = 0
    /\ chunks = <<>>
    /\ chunk_index = 0
    /\ IdleTables /\ IdleSession /\ IdleStore /\ IdleCall

SpecParagraphs == InitParagraphs /\ [][NextChunk]_vars

\* the whitespace-delimited tokens of the text of a page
PageTokens(page) ==
    UNION {SeqToSet(SplitWords(text_content[n].text)) :
              n \in {k \in 1..Len(text_content) : text_content[k].page = page}}

\* the stripped, non-empty paragraphs of the pages
PageParagraphs ==
    UNION {{Strip(q) : q \in SeqToSet(SplitParagraphs(text_content[n].text))} :
              n \in 1..Len(text_content)} \ {<<>>}

\* a token longer than CHUNK_SIZE is the only token of its chunk
OversizedAlone(text) ==
    LET tokens == SplitWords(text)
    IN  (\E k \in 1..Len(tokens) : Len(tokens[k]) > settings.CHUNK_SIZE) => Len(tokens) = 1

\* every chunk _split_large_paragraph builds from a paragraph of the pages
\* keeps a token longer than CHUNK_SIZE alone
WordLevelKeepsOversizedAlone ==
    \A p \in PageParagraphs :
        \A c \in SeqToSet(_split_large_paragraph(p, 1, 0)) : OversizedAlone(c.text)

\* C11 as stated: every whitespace-delimited token of every chunk, the tokens
\* of the overlap prefix included, is a whole token of the text of its page,
\* and a token longer than CHUNK_SIZE that reaches the word level is the only
\* token of its chunk.
C11_WholeTokens ==
    /\ \A i \in 1..Len(chunks) :
          \A token \in SeqToSet(SplitWords(chunks[i].text)) :
              token \in PageTokens(chunks[i].page)
    /\ WordLevelKeepsOversizedAlone

----------------------------------------------------------------------------
(* Claims about the counts and the commits, checked under Spec and SpecTables *)

\* the number of records of a category the session holds durably
Durable(kind) ==
    Cardinality({k \in 1..Len(db.committed) : db.committed[k].kind = kind})

\* C12: when process_document returns "completed", each of capital_calls,
\* distributions and adjustments is the number of records of that category
\* durably committed to the session during the call, whatever rows were
\* skipped and whatever tables raised or were unclassified; the summary of
\* parse_tables agrees with the session after every table.
C12_CountsAreCommitted ==
    /\ stats.capital_calls = Durable("CapitalCall")
    /\ stats.distributions = Durable("Distribution")
    /\ stats.adjustments = Durable("Adjustment")
    /\ \A r \in result :
          r.status = "completed" =>
              /\ r.statistics.capital_calls = Durable("CapitalCall")
              /\ r.statistics.distributions = Durable("Distribution")
              /\ r.statistics.adjustments = Durable("Adjustment")
              /\ r.statistics.errors = stats.errors

\* a completed result with a record counted, after a table whose commit
\* raised with records added and a row that was skipped
C12_Witness ==
    /\ pc = "done"
    /\ \E r \in result :
          /\ r.status = "completed"
          /\ r.statistics.capital_calls >= 1
          /\ Len(r.statistics.errors) >= 1
    /\ \E j, k \in 1..Len(log) :
          /\ log[j].op = "add"
          /\ log[k].op = "commit" /\ ~log[k].ok /\ log[k].table = log[j].table
    /\ CountOf(log, {"add"}) > Len(db.committed)
    /\ \E i \in 1..Len(tables) : RowBadDate \in SeqToSet(tables[i])

\* the extractor of a category
KindOf(table_type) ==
    IF table_type = "capital_call" THEN "CapitalCall"
    ELSE IF table_type = "distribution" THEN "Distribution"
    ELSE "Adjustment"

\* the table at 0-based position i was dispatched to a row extractor, and
\* the date and amount columns of the extractor resolve
DispatchedResolved(i) ==
    \E k \in 1..Len(log) :
        /\ log[k].op = "classify" /\ log[k].table = i
        /\ log[k].type \in {"capital_call", "distribution", "adjustment"}
        /\ Resolved(ColsOf(KindOf(log[k].type), tables[i + 1]))

\* the positions in the log of the adds and of the commits of table i
AddsOf(i) == {k \in 1..Len(log) : log[k].op = "add" /\ log[k].table = i}
CommitsOf(i) == {k \in 1..Len(log) : log[k].op = "commit" /\ log[k].table = i}

\* the records added for the tables whose commit returned, in log order
RECURSIVE RecordsKept(_)
RecordsKept(events) ==
    IF events = <<>> THEN <<>>
    ELSE IF Head(events).op = "add"
            /\ \E k \in CommitsOf(Head(events).table) : log[k].ok
         THEN <<Head(events).rec>> \o RecordsKept(Tail(events))
         ELSE RecordsKept(Tail(events))

\* C13: a table dispatched to an extractor whose date and amount columns
\* resolve gets exactly one commit, after the add of its last row and never
\* between two rows; the records of a table are durable when that commit
\* returned and never otherwise, so no commit of a later table commits them.
C13_OneCommitPerTable ==
    /\ \A i \in 0..(table_idx - 1) :
          /\ Cardinality(CommitsOf(i)) = IF DispatchedResolved(i) THEN 1 ELSE 0
          /\ \A a \in AddsOf(i) : \A c \in CommitsOf(i) : a < c
          /\ AddsOf(i) # {} => CommitsOf(i) # {}
    /\ \A j, k \in 1..Len(log) :
          (j < k /\ {log[j].op, log[k].op} \subseteq {"classify", "add", "commit"})
              => log[j].table <= log[k].table
    /\ db.committed = RecordsKept(log)
    /\ db.pending = <<>>

\* two tables with records: the commit of the first raised after two adds,
\* the commit of the second returned, and only the records of the second
\* are durable
C13_Witness ==
    /\ pc = "parsed"
    /\ Len(tables) = 2
    /\ Cardinality(AddsOf(0)) = 2
    /\ \E c \in CommitsOf(0) : ~log[c].ok
    /\ Cardinality(AddsOf(1)) >= 1
    /\ \E c \in CommitsOf(1) : log[c].ok
    /\ Len(db.committed) = Cardinality(AddsOf(1))

====
